---- MODULE Spec2Model ----
(***************************************************************************)
(* A model of the ctdf journey operations (fingerprinting and the          *)
(* deduplication of journeys, the realtime overlay, the concurrent         *)
(* resolution of a journey's stops) and of the cached ServicesByStop       *)
(* query of the database lookup source.                                    *)
(*                                                                         *)
(* Strings are sequences of one-character strings, so that what            *)
(* hash.Write receives is a byte stream and concatenation is concatenation.*)
(* sha256 and the %x formatting are taken to be collision free: a digest   *)
(* is modelled by the stream that was written to the hash.                 *)
(***************************************************************************)
EXTENDS Integers, Sequences, FiniteSets, TLC

VARIABLES
    \* FilterIdenticalJourneys
    journeys,                      \* the argument []*Journey
    includeAvailabilityCondition,  \* the argument flag
    filtered,                      \* the local var filtered
    matches,                       \* the local map matches (its true keys)
    filterIdx,                     \* position of the range loop
    filterPc,                      \* "idle" | "loop" | "done" | "panic"
    hashLog,                       \* every value the local var hash has taken
    \* Journey.GetRealtimeJourney
    now,                           \* the clock time.Now() reads
    realtimeJourneys,              \* the realtime_journeys collection
    rtJourney,                     \* the receiver j: its identifier and overlay
    rtPc,                          \* "idle" | "ready" | "done"
    rtCall,                        \* what the last call saw and found
    \* Source.ServicesByStopQuery
    cache,                         \* s.CachedResults: key -> entry
    journeysCollection,            \* the journeys collection, in store order
    call,                          \* the calls: position and locals of each
    lastWriter,                    \* per key, the call whose Set wrote it last
    expired,                       \* whether the TTL of an entry has run out yet
    \* Journey.GetDeepReferences
    deepPath,                      \* j.Path: the path items, with their stops
    deepPc,                        \* the caller: "idle" | "loop" | "wait" | "returned"
    deepIdx,                       \* position of the range loop
    wg,                            \* the counter of the sync.WaitGroup
    task,                          \* per path item, where its goroutine is
    completed,                     \* the path items in the order of wg.Done
    written,                       \* per goroutine, the fields it has written
    \* Journey.GetOperator and Journey.GetService
    refJourney,                    \* the receiver j: its refs and relations
    refPc,                         \* "idle" | "ready"
    refCalls,                      \* the calls made so far, each with what it did
    \* the events runner: RegisterCLI "run" and EventsBatchConsumer.Consume
    evWorker,                      \* per consumer: position, batch, payloads done
    evNextBatch,                   \* the next batch the queue hands out
    evAcks,                        \* the calls of batch.Ack() made so far
    evProcess,                     \* "idle" | "running" | "returned" | "exit1" | "fatal"
    evMainPc,                      \* the run action: "idle" | "signal" | "stop" | "returned"
    evHard,                        \* the hard-exit goroutine: "none" | "armed" | "fired"
    evSignals,                     \* the signals buffered in the channel
    evSent,                        \* the interrupts sent to the process
    evStopping,                    \* whether StopAllConsuming has been called
    \* the dataset registry and the import run over it
    impEnv,                        \* the environment variables of the process
    impProcess,                    \* "idle" | "running" | "fatal"
    dsState,                       \* per dataset, where its import is
    dsRequest,                     \* per dataset, the outgoing request
    dsSent,                        \* per dataset, the request as it was sent
    dsLogin,                       \* per dataset, how the National Rail login went
    \* Journey.FlattenStops
    flatPath,                      \* j.Path of the receiver
    flatPc,                        \* "idle" | "loop" | "returned" | "panic"
    flatIdx,                       \* position of the range loop
    stops,                         \* the local var stops
    arrivalTimes,                  \* the local map arrivalTimes, as pairs
    departureTimes,                \* the local map departureTimes, as pairs
    alreadySeen                    \* the local map alreadySeen (its true keys)

dedupVars == <<journeys, includeAvailabilityCondition, filtered, matches,
               filterIdx, filterPc, hashLog>>

rtVars == <<now, realtimeJourneys, rtJourney, rtPc, rtCall>>

queryVars == <<cache, journeysCollection, call, lastWriter, expired>>

deepVars == <<deepPath, deepPc, deepIdx, wg, task, completed, written>>

refVars == <<refJourney, refPc, refCalls>>

eventVars == <<evWorker, evNextBatch, evAcks, evProcess, evMainPc, evHard,
               evSignals, evSent, evStopping>>

importVars == <<impEnv, impProcess, dsState, dsRequest, dsSent, dsLogin>>

flattenVars == <<flatPath, flatPc, flatIdx, stops, arrivalTimes, departureTimes,
                 alreadySeen>>

vars == <<dedupVars, rtVars, queryVars, deepVars, refVars, eventVars, importVars, flattenVars>>

----------------------------------------------------------------------------
(* Bounds *)

\* the longest argument slice given to FilterIdenticalJourneys
MaxJourneys == 2

\* the clock runs from 0 to MaxNow
MaxNow == 4

\* the most documents the realtime_journeys collection holds
MaxRealtimeJourneys == 2

\* the most documents the journeys collection holds
MaxStoredJourneys == 2

\* the longest path GetDeepReferences is called on
MaxPathItems == 2

----------------------------------------------------------------------------
(* time.Time and its two renderings *)

\* *time.Location values: time.UTC, and the fabricated zones time.Parse
\* builds for an offset that is not the local one (their name is empty).
UTC == [name |-> <<"U", "T", "C">>, off |-> 0]
FixedZone(o) == [name |-> <<>>, off |-> o]

\* A time.Time: the instant (in hours since an epoch) and the location.
Time(u, l) == [unix |-> u, loc |-> l]

\* What the clock of the time's location shows at the instant (Time.abs).
Wall(t) == t.unix + t.loc.off

\* The -0700 rendering of an offset.
OffsetString(o) == IF o < 0 THEN <<"-", ToString(0 - o)>> ELSE <<"+", ToString(o)>>

\* The MST rendering: the zone's abbreviation, or its offset when it has none.
ZoneAbbreviation(l) == IF l.name = <<>> THEN OffsetString(l.off) ELSE l.name

\* Time.String: "2006-01-02 15:04:05.999999999 -0700 MST", the wall clock
\* reading followed by the offset and the zone abbreviation.
TimeString(t) ==
    <<ToString(Wall(t)), " ">> \o OffsetString(t.loc.off) \o <<" ">>
        \o ZoneAbbreviation(t.loc)

\* Time.GoString: "time.Date(y, m, d, h, m, s, ns, loc)": the wall clock
\* reading and the location written as time.UTC or time.Location("name").
\* The offset is not part of it.
TimeGoString(t) ==
    <<"time.Date(", ToString(Wall(t)), ", ">>
        \o (IF t.loc = UTC THEN <<"time.UTC">>
            ELSE <<"time.Location(\"">> \o t.loc.name \o <<"\")">>)
        \o <<")">>

----------------------------------------------------------------------------
(* Journey.GenerateFunctionalHash *)

\* An optional pointer: <<>> is nil, <<x>> points to x.
Nil == <<>>
Ptr(x) == <<x>>

\* lines 123-125: what one availability rule writes to the hash
RuleBytes(availabilityMatchRule) ==
    availabilityMatchRule.Type \o availabilityMatchRule.Value
        \o availabilityMatchRule.Description

\* lines 122-126: what the loop over the rules writes to the hash
RECURSIVE RulesBytes(_)
RulesBytes(rules) ==
    IF rules = <<>> THEN <<>>
    ELSE RuleBytes(Head(rules)) \o RulesBytes(Tail(rules))

\* lines 130-134: what one path item writes to the hash
PathItemBytes(pathItem) ==
    pathItem.OriginStopRef
        \o TimeGoString(pathItem.OriginArrivalTime)
        \o TimeGoString(pathItem.OriginDepartureTime)
        \o pathItem.DestinationStopRef
        \o TimeGoString(pathItem.DestinationArrivalTime)

\* lines 129-135: what the loop over the path writes to the hash
RECURSIVE PathBytes(_)
PathBytes(path) ==
    IF path = <<>> THEN <<>>
    ELSE PathItemBytes(Head(path)) \o PathBytes(Tail(path))

\* lines 117-120: the rules in the order they are appended
AvailabilityRules(a) == a.Match \o a.MatchSecondary \o a.Exclude \o a.Condition

\* The panic of a nil pointer dereference, as the outcome of a call.
Panic == <<"panic: nil pointer dereference">>

\* A mutant: the creation time takes part in the digest.
GenerateFunctionalHashWithCreation(j, flag) ==
    IF flag /\ j.Availability = Nil THEN Panic
    ELSE j.ServiceRef \o j.DestinationDisplay \o j.Direction
           \o TimeString(j.DepartureTime)
           \o <<ToString(j.CreationDateTime)>>
           \o (IF flag THEN RulesBytes(AvailabilityRules(j.Availability[1]))
               ELSE <<>>)
           \o PathBytes(j.Path)

\* The digest of the journey, or Panic: with the flag set j.Availability is
\* dereferenced (line 117) whether or not it is nil.
GenerateFunctionalHash(j, flag) ==
    IF flag /\ j.Availability = Nil THEN Panic
    ELSE j.ServiceRef \o j.DestinationDisplay \o j.Direction
           \o TimeString(j.DepartureTime)
           \o (IF flag THEN RulesBytes(AvailabilityRules(j.Availability[1]))
               ELSE <<>>)
           \o PathBytes(j.Path)

----------------------------------------------------------------------------
(* The journeys the deduplication is run on: J1 and the journeys that      *)
(* differ from it in one place.                                            *)

Rule(t, v, d) == [Type |-> t, Value |-> v, Description |-> d]

PathItem(o, oa, od, d, da) ==
    [OriginStopRef |-> o, OriginArrivalTime |-> oa, OriginDepartureTime |-> od,
     DestinationStopRef |-> d, DestinationArrivalTime |-> da]

R1 == Rule(<<"D">>, <<"M", "o">>, <<>>)

A1 == [Match |-> <<>>, MatchSecondary |-> <<>>, Exclude |-> <<>>,
       Condition |-> <<R1>>]

PAB == PathItem(<<"A">>, Time(8, FixedZone(0)), Time(8, FixedZone(0)),
                <<"B">>, Time(9, FixedZone(0)))
PBC == PathItem(<<"B">>, Time(9, FixedZone(0)), Time(9, FixedZone(0)),
                <<"C">>, Time(10, FixedZone(0)))

J1 == [PrimaryIdentifier |-> <<"j", "1">>,
       OtherIdentifiers |-> <<>>,
       CreationDateTime |-> 1,
       ModificationDateTime |-> 1,
       ServiceRef |-> <<"S", "V", "C", "1">>,
       OperatorRef |-> <<"O", "P">>,
       Direction |-> <<"o", "u", "t">>,
       DepartureTime |-> Time(8, FixedZone(0)),
       DestinationDisplay |-> <<"T", "o", "w", "n">>,
       Availability |-> Ptr(A1),
       Path |-> <<PAB, PBC>>]

\* J1 with one field that takes no part in the fingerprint changed
NonFunctionalVariants ==
    { [J1 EXCEPT !.PrimaryIdentifier = <<"j", "2">>],
      [J1 EXCEPT !.OtherIdentifiers = <<"x">>],
      [J1 EXCEPT !.CreationDateTime = 2],
      [J1 EXCEPT !.ModificationDateTime = 2],
      [J1 EXCEPT !.OperatorRef = <<"O", "Q">>] }

\* J1 with one of the head fields changed
HeadVariants ==
    { [J1 EXCEPT !.ServiceRef = <<"S", "V", "C", "2">>],
      [J1 EXCEPT !.DestinationDisplay = <<"C", "i", "t", "y">>],
      [J1 EXCEPT !.Direction = <<"i", "n">>],
      \* the same letters, the boundary between two fields moved
      [J1 EXCEPT !.ServiceRef = <<"S", "V", "C">>,
                 !.DestinationDisplay = <<"1", "T", "o", "w", "n">>],
      \* another instant
      [J1 EXCEPT !.DepartureTime = Time(9, FixedZone(0))],
      \* another instant that shows the same wall clock in another zone
      [J1 EXCEPT !.DepartureTime = Time(7, FixedZone(1))],
      \* the same instant in UTC
      [J1 EXCEPT !.DepartureTime = Time(8, UTC)] }

\* J1 with its availability changed
AvailabilityVariants ==
    { [J1 EXCEPT !.Availability = Nil],
      [J1 EXCEPT !.Availability = Ptr([A1 EXCEPT !.Condition =
          <<Rule(<<"E">>, <<"M", "o">>, <<>>)>>])],
      [J1 EXCEPT !.Availability = Ptr([A1 EXCEPT !.Condition =
          <<Rule(<<"D">>, <<"T", "u">>, <<>>)>>])],
      [J1 EXCEPT !.Availability = Ptr([A1 EXCEPT !.Condition =
          <<Rule(<<"D">>, <<"M", "o">>, <<"x">>)>>])],
      \* one rule, the boundary between its Type and its Value moved
      [J1 EXCEPT !.Availability = Ptr([A1 EXCEPT !.Condition =
          <<Rule(<<"D", "M">>, <<"o">>, <<>>)>>])],
      \* the rule in another list
      [J1 EXCEPT !.Availability = Ptr([A1 EXCEPT !.Condition = <<>>,
                                                 !.Exclude = <<R1>>])],
      \* no rule at all
      [J1 EXCEPT !.Availability = Ptr([A1 EXCEPT !.Condition = <<>>])] }

\* J1 with one field of its first path item changed, or a shorter path
PathVariants ==
    { [J1 EXCEPT !.Path[1].OriginStopRef = <<"Z">>],
      [J1 EXCEPT !.Path[1].OriginArrivalTime = Time(7, FixedZone(0))],
      \* another instant that shows the same wall clock in another zone
      [J1 EXCEPT !.Path[1].OriginArrivalTime = Time(7, FixedZone(1))],
      [J1 EXCEPT !.Path[1].OriginDepartureTime = Time(9, FixedZone(0))],
      [J1 EXCEPT !.Path[1].DestinationStopRef = <<"Z">>],
      [J1 EXCEPT !.Path[1].DestinationArrivalTime = Time(10, FixedZone(0))],
      [J1 EXCEPT !.Path = <<PAB>>],
      [J1 EXCEPT !.Path = <<>>] }

\* J1 with the same letters, the boundary between its last rule and its
\* first path item moved
BoundaryVariants ==
    { [J1 EXCEPT !.Availability = Ptr([A1 EXCEPT !.Condition =
                     <<Rule(<<"D">>, <<"M">>, <<>>)>>]),
                 !.Path[1].OriginStopRef = <<"o", "A">>] }

JourneyValues ==
    {J1} \cup NonFunctionalVariants \cup HeadVariants \cup AvailabilityVariants
         \cup PathVariants \cup BoundaryVariants

\* the sequences over S of length at most n
SeqsUpTo(S, n) == UNION { [1..k -> S] : k \in 0..n }

----------------------------------------------------------------------------
(* FilterIdenticalJourneys *)

\* no call of FilterIdenticalJourneys is in progress
DedupIdle ==
    /\ journeys = <<>>
    /\ includeAvailabilityCondition = FALSE
    /\ filtered = <<>>
    /\ matches = {}
    /\ filterIdx = 1
    /\ filterPc = "idle"
    /\ hashLog = <<>>

\* a call of FilterIdenticalJourneys on some journeys, with either flag
DedupCalled ==
    /\ journeys \in SeqsUpTo(JourneyValues, MaxJourneys)
    /\ includeAvailabilityCondition \in BOOLEAN
    /\ filtered = <<>>
    /\ matches = {}
    /\ filterIdx = 1
    /\ filterPc = "loop"
    /\ hashLog = <<>>

\* lines 171-178: one iteration of the range loop
FilterStep ==
    /\ filterPc = "loop"
    /\ filterIdx <= Len(journeys)
    /\ LET journey == journeys[filterIdx]
           hash == GenerateFunctionalHash(journey, includeAvailabilityCondition)
       IN /\ hashLog' = Append(hashLog, hash)
          /\ IF hash = Panic
             THEN /\ filterPc' = "panic"
                  /\ UNCHANGED <<filtered, matches, filterIdx>>
             ELSE /\ filterPc' = "loop"
                  /\ filterIdx' = filterIdx + 1
                  /\ IF hash \notin matches
                     THEN /\ filtered' = Append(filtered, journey)
                          /\ matches' = matches \cup {hash}
                     ELSE UNCHANGED <<filtered, matches>>
    /\ UNCHANGED <<journeys, includeAvailabilityCondition>>
    /\ UNCHANGED <<rtVars, queryVars, deepVars, refVars, eventVars, importVars, flattenVars>>

\* line 180: the loop is over, filtered is returned
FilterReturn ==
    /\ filterPc = "loop"
    /\ filterIdx > Len(journeys)
    /\ filterPc' = "done"
    /\ UNCHANGED <<journeys, includeAvailabilityCondition, filtered, matches,
                   filterIdx, hashLog>>
    /\ UNCHANGED <<rtVars, queryVars, deepVars, refVars, eventVars, importVars, flattenVars>>

NextDedup == FilterStep \/ FilterReturn

----------------------------------------------------------------------------
(* Journey.GetRealtimeJourney *)

\* the journey identifiers in the realtime_journeys collection
JourneyIds == {"j1", "j2"}

\* the age up to which a realtime journey counts: the cut-off date is
\* now - RealtimeCutoff
RealtimeCutoff == 2

\* GetActiveRealtimeJourneyCutOffDate
GetActiveRealtimeJourneyCutOffDate == now - RealtimeCutoff

\* RealtimeJourney.IsActive
IsActive(realtimeJourney) == realtimeJourney.active

\* lines 93-96: the filter of the FindOne
RealtimeFilter(doc, id, cutoffDate) ==
    /\ doc.journey = id
    /\ doc.mod > cutoffDate

\* no call of GetRealtimeJourney is set up
RealtimeIdle ==
    /\ now = 0
    /\ realtimeJourneys = {}
    /\ rtJourney = [PrimaryIdentifier |-> "j1", RealtimeJourney |-> Nil]
    /\ rtPc = "idle"
    /\ rtCall = [now |-> 0, docs |-> {}, before |-> Nil, found |-> Nil]

\* a journey loaded from the store: RealtimeJourney is not persisted (bson:"-")
RealtimeReady ==
    /\ now = 0
    /\ realtimeJourneys = {}
    /\ rtJourney = [PrimaryIdentifier |-> "j1", RealtimeJourney |-> Nil]
    /\ rtPc = "ready"
    /\ rtCall = [now |-> 0, docs |-> {}, before |-> Nil, found |-> Nil]

\* time passes
Tick ==
    /\ rtPc # "idle"
    /\ now < MaxNow
    /\ now' = now + 1
    /\ UNCHANGED <<realtimeJourneys, rtJourney, rtPc, rtCall>>
    /\ UNCHANGED <<dedupVars, queryVars, deepVars, refVars, eventVars, importVars, flattenVars>>

\* the realtime tracker stores a realtime journey, modified now
SaveRealtimeJourney ==
    /\ rtPc # "idle"
    /\ Cardinality(realtimeJourneys) < MaxRealtimeJourneys
    /\ \E id \in JourneyIds, act \in BOOLEAN :
           realtimeJourneys' = realtimeJourneys
               \cup {[journey |-> id, mod |-> now, active |-> act]}
    /\ UNCHANGED <<now, rtJourney, rtPc, rtCall>>
    /\ UNCHANGED <<dedupVars, queryVars, deepVars, refVars, eventVars, importVars, flattenVars>>

\* A mutant: the field is assigned whatever the lookup gave.
GetRealtimeJourneyAssigning ==
    /\ rtPc # "idle"
    /\ LET realtimeActiveCutoffDate == GetActiveRealtimeJourneyCutOffDate
           matching == { doc \in realtimeJourneys :
                           RealtimeFilter(doc, rtJourney.PrimaryIdentifier,
                                          realtimeActiveCutoffDate) }
       IN \E realtimeJourney \in
               (IF matching = {} THEN {Nil} ELSE { Ptr(doc) : doc \in matching }) :
            /\ rtJourney' =
                 IF realtimeJourney # Nil /\ IsActive(realtimeJourney[1])
                 THEN [rtJourney EXCEPT !.RealtimeJourney = realtimeJourney]
                 ELSE [rtJourney EXCEPT !.RealtimeJourney = Nil]
            /\ rtCall' = [now |-> now, docs |-> realtimeJourneys,
                          before |-> rtJourney.RealtimeJourney,
                          found |-> realtimeJourney]
    /\ rtPc' = "done"
    /\ UNCHANGED <<now, realtimeJourneys>>
    /\ UNCHANGED <<dedupVars, queryVars, deepVars, refVars, eventVars, importVars, flattenVars>>

\* lines 87-101, the whole call. FindOne is given no sort: it returns any one
\* of the documents that match, and Decode leaves realtimeJourney nil when
\* none does.
GetRealtimeJourney ==
    /\ rtPc # "idle"
    /\ LET realtimeActiveCutoffDate == GetActiveRealtimeJourneyCutOffDate
           matching == { doc \in realtimeJourneys :
                           RealtimeFilter(doc, rtJourney.PrimaryIdentifier,
                                          realtimeActiveCutoffDate) }
       IN \E realtimeJourney \in
               (IF matching = {} THEN {Nil} ELSE { Ptr(doc) : doc \in matching }) :
            /\ rtJourney' =
                 IF realtimeJourney # Nil /\ IsActive(realtimeJourney[1])
                 THEN [rtJourney EXCEPT !.RealtimeJourney = realtimeJourney]
                 ELSE rtJourney
            /\ rtCall' = [now |-> now, docs |-> realtimeJourneys,
                          before |-> rtJourney.RealtimeJourney,
                          found |-> realtimeJourney]
    /\ rtPc' = "done"
    /\ UNCHANGED <<now, realtimeJourneys>>
    /\ UNCHANGED <<dedupVars, queryVars, deepVars, refVars, eventVars, importVars, flattenVars>>

NextRealtime == Tick \/ SaveRealtimeJourney \/ GetRealtimeJourney

----------------------------------------------------------------------------
(* Source.ServicesByStopQuery *)

\* the calls of ServicesByStopQuery that may be in progress together
Calls == {"a", "b"}

\* the stops queried: a primary identifier and the identifiers of the platforms
QueryStops == { [PrimaryIdentifier |-> "s1", Platforms |-> {"s1p"}],
                [PrimaryIdentifier |-> "s2", Platforms |-> {}] }

\* Stop.GetAllStopIDs: the stop's primary id and all platforms' primary ids
GetAllStopIDs(stop) == {stop.PrimaryIdentifier} \cup stop.Platforms

\* the services collection
ServicesCollection == { [PrimaryIdentifier |-> "sv1", transformed |-> FALSE],
                        [PrimaryIdentifier |-> "sv2", transformed |-> FALSE] }

\* the documents the journeys collection may hold
StoredJourney(sv, o, d) ==
    [ServiceRef |-> sv, Path |-> <<[OriginStopRef |-> o, DestinationStopRef |-> d]>>]

StoredJourneyValues ==
    { StoredJourney("sv1", "s1", "x"),
      StoredJourney("sv2", "x", "s1p"),
      StoredJourney("sv1", "s2", "x") }

\* transforms.Transform(service, 1)
Transform(service) == [service EXCEPT !.transformed = TRUE]

\* 24*time.Hour, in hours
CacheTTLHours == 24

\* A mutant: one key for every stop.
CacheItemPathOfKind(stop) == <<"cachedresults/servicesbystopquery/", "">>

\* line 260: fmt.Sprintf("cachedresults/servicesbystopquery/%s", id)
CacheItemPath(stop) ==
    <<"cachedresults/servicesbystopquery/", stop.PrimaryIdentifier>>

CacheKeys == { CacheItemPath(stop) : stop \in QueryStops }

\* a cache entry that cachedresults.Get cannot decode
Undecodable == Ptr([value |-> <<>>, ttl |-> CacheTTLHours, decodable |-> FALSE])

\* cachedresults.Get: the value and a nil error for an entry that decodes,
\* the zero value and an error for a missing or undecodable one
CachedResultsGet(key) ==
    IF cache[key] # Nil /\ cache[key][1].decodable
    THEN [value |-> cache[key][1].value, err |-> FALSE]
    ELSE [value |-> <<>>, err |-> TRUE]

\* cachedresults.Set: the entry as it is written
CachedResultsSet(value, ttl) == Ptr([value |-> value, ttl |-> ttl, decodable |-> TRUE])

\* lines 272-277: the filter of the Find
TouchesStop(journey, allStopIDs) ==
    \E i \in 1..Len(journey.Path) :
        \/ journey.Path[i].OriginStopRef \in allStopIDs
        \/ journey.Path[i].DestinationStopRef \in allStopIDs

\* line 292: what the cursor of the Find yields: the journeys of the
\* collection that match the filter, in store order
RECURSIVE FindJourneys(_, _)
FindJourneys(collection, allStopIDs) ==
    IF collection = <<>> THEN <<>>
    ELSE (IF TouchesStop(Head(collection), allStopIDs)
          THEN <<Head(collection)>> ELSE <<>>)
             \o FindJourneys(Tail(collection), allStopIDs)

NotCalled ==
    [pc |-> "idle", stop |-> Nil, services |-> <<>>, serviceFound |-> {},
     cursor |-> <<>>, hit |-> FALSE, sawEmptyCache |-> FALSE, follows |-> {},
     computations |-> 0, storeReads |-> 0, found |-> <<>>, result |-> Nil]

\* no query is set up
QueryIdle ==
    /\ cache = [k \in CacheKeys |-> Nil]
    /\ journeysCollection = <<>>
    /\ call = [c \in Calls |-> NotCalled]
    /\ lastWriter = [k \in CacheKeys |-> ""]
    /\ expired = FALSE

\* the source is up: the cache holds nothing, or entries that do not decode
QueryReady ==
    /\ cache \in [CacheKeys -> {Nil, Undecodable}]
    /\ journeysCollection = <<>>
    /\ call = [c \in Calls |-> [NotCalled EXCEPT !.pc = "ready"]]
    /\ lastWriter = [k \in CacheKeys |-> ""]
    /\ expired = FALSE

\* line 257: a caller calls ServicesByStopQuery for a stop
QueryCall(c) ==
    /\ call[c].pc = "ready"
    /\ \E stop \in QueryStops :
           call' = [call EXCEPT
               ![c].pc = "get",
               ![c].stop = Ptr(stop),
               ![c].follows = { d \in Calls : /\ call[d].pc = "done"
                                               /\ call[d].stop = Ptr(stop) }]
    /\ UNCHANGED <<cache, journeysCollection, lastWriter, expired>>
    /\ UNCHANGED <<dedupVars, rtVars, deepVars, refVars, eventVars, importVars, flattenVars>>

\* lines 260-264: the cache read; a hit returns at once
CacheGet(c) ==
    /\ call[c].pc = "get"
    /\ LET cacheItemPath == CacheItemPath(call[c].stop[1])
           got == CachedResultsGet(cacheItemPath)
       IN call' = [call EXCEPT
              ![c].sawEmptyCache = \A k \in CacheKeys : cache[k] = Nil,
              ![c].hit = ~got.err,
              ![c].services = got.value,
              ![c].result = IF got.err THEN Nil ELSE Ptr(got.value),
              ![c].pc = IF got.err THEN "find" ELSE "done"]
    /\ UNCHANGED <<cache, journeysCollection, lastWriter, expired>>
    /\ UNCHANGED <<dedupVars, rtVars, deepVars, refVars, eventVars, importVars, flattenVars>>

\* line 292: Find succeeds; the cursor will yield the matching journeys
Find(c) ==
    /\ call[c].pc = "find"
    /\ LET allStopIDs == GetAllStopIDs(call[c].stop[1])
       IN call' = [call EXCEPT
              ![c].cursor = FindJourneys(journeysCollection, allStopIDs),
              ![c].found = FindJourneys(journeysCollection, allStopIDs),
              ![c].computations = @ + 1,
              ![c].storeReads = @ + 1,
              ![c].pc = "next"]
    /\ UNCHANGED <<cache, journeysCollection, lastWriter, expired>>
    /\ UNCHANGED <<dedupVars, rtVars, deepVars, refVars, eventVars, importVars, flattenVars>>

\* lines 292-293: Find fails and returns a nil cursor with the error, which
\* is dropped; cursor.Next then dereferences the nil cursor
FindFails(c) ==
    /\ call[c].pc = "find"
    /\ call' = [call EXCEPT ![c].computations = @ + 1,
                            ![c].storeReads = @ + 1,
                            ![c].pc = "panic"]
    /\ UNCHANGED <<cache, journeysCollection, lastWriter, expired>>
    /\ UNCHANGED <<dedupVars, rtVars, deepVars, refVars, eventVars, importVars, flattenVars>>

\* lines 293-310: one iteration of the cursor loop. The FindOne of the
\* service finds it, or leaves service nil (no such service, or the lookup
\* failed: the error is dropped).
CursorNext(c) ==
    /\ call[c].pc = "next"
    /\ call[c].cursor # <<>>
    /\ LET journey == Head(call[c].cursor)
       IN IF journey.ServiceRef \in call[c].serviceFound
          THEN call' = [call EXCEPT ![c].cursor = Tail(@)]
          ELSE \E service \in
                   {Nil} \cup { Ptr(sv) : sv \in
                       { sv \in ServicesCollection :
                           sv.PrimaryIdentifier = journey.ServiceRef } } :
                 call' = [call EXCEPT
                     ![c].cursor = Tail(@),
                     ![c].serviceFound = @ \cup {journey.ServiceRef},
                     ![c].storeReads = @ + 1,
                     ![c].services = IF service # Nil
                                     THEN Append(@, Transform(service[1]))
                                     ELSE @]
    /\ UNCHANGED <<cache, journeysCollection, lastWriter, expired>>
    /\ UNCHANGED <<dedupVars, rtVars, deepVars, refVars, eventVars, importVars, flattenVars>>

\* A mutant: the entry is written only when the key holds none.
CacheSetIfAbsentAndReturn(c) ==
    /\ call[c].pc = "next"
    /\ LET cacheItemPath == CacheItemPath(call[c].stop[1])
       IN /\ cache' = IF cache[cacheItemPath] # Nil THEN cache
                       ELSE [cache EXCEPT ![cacheItemPath] =
                               CachedResultsSet(call[c].services, CacheTTLHours)]
          /\ lastWriter' = [lastWriter EXCEPT ![cacheItemPath] = c]
    /\ call' = [call EXCEPT ![c].result = Ptr(call[c].services),
                            ![c].pc = "done"]
    /\ UNCHANGED <<journeysCollection, expired>>
    /\ UNCHANGED <<dedupVars, rtVars, deepVars, refVars, eventVars, importVars, flattenVars>>

\* line 293: cursor.Next returns false, the cursor being exhausted or having
\* failed; lines 313-315: the services are cached and returned
CacheSetAndReturn(c) ==
    /\ call[c].pc = "next"
    /\ LET cacheItemPath == CacheItemPath(call[c].stop[1])
       IN /\ cache' = [cache EXCEPT ![cacheItemPath] =
                          CachedResultsSet(call[c].services, CacheTTLHours)]
          /\ lastWriter' = [lastWriter EXCEPT ![cacheItemPath] = c]
    /\ call' = [call EXCEPT ![c].result = Ptr(call[c].services),
                            ![c].pc = "done"]
    /\ UNCHANGED <<journeysCollection, expired>>
    /\ UNCHANGED <<dedupVars, rtVars, deepVars, refVars, eventVars, importVars, flattenVars>>

\* an import adds a journey to the journeys collection
ImportJourney ==
    /\ \E c \in Calls : call[c].pc # "idle"
    /\ Len(journeysCollection) < MaxStoredJourneys
    /\ \E journey \in StoredJourneyValues :
           journeysCollection' = Append(journeysCollection, journey)
    /\ UNCHANGED <<cache, call, lastWriter, expired>>
    /\ UNCHANGED <<dedupVars, rtVars, deepVars, refVars, eventVars, importVars, flattenVars>>

\* the TTL of an entry runs out
CacheExpire ==
    /\ \E k \in CacheKeys :
         /\ cache[k] # Nil
         /\ cache' = [cache EXCEPT ![k] = Nil]
         /\ lastWriter' = [lastWriter EXCEPT ![k] = ""]
    /\ expired' = TRUE
    /\ UNCHANGED <<journeysCollection, call>>
    /\ UNCHANGED <<dedupVars, rtVars, deepVars, refVars, eventVars, importVars, flattenVars>>

NextQuery ==
    \/ \E c \in Calls :
          \/ QueryCall(c)
          \/ CacheGet(c)
          \/ Find(c)
          \/ FindFails(c)
          \/ CursorNext(c)
          \/ CacheSetAndReturn(c)
    \/ ImportJourney
    \/ CacheExpire

----------------------------------------------------------------------------
(* Journey.GetDeepReferences and JourneyPathItem.GetReferences *)

\* the stops collection: two stops answer to the reference "s1"
StopsCollection ==
    { [PrimaryIdentifier |-> "s1", Platforms |-> {"s1p"}],
      [PrimaryIdentifier |-> "s2", Platforms |-> {}],
      [PrimaryIdentifier |-> "s3", Platforms |-> {"s1"}] }

\* the stop references of the path items; no stop answers to "zz"
StopRefs == {"s1", "s1p", "zz"}

\* lines 216-221, 225-230: the $or filter of the FindOne
StopFilter(stop, ref) ==
    \/ stop.PrimaryIdentifier = ref
    \/ ref \in stop.Platforms

\* FindOne(...).Decode(&field): the values the field may have afterwards.
\* FindOne returns any one stop that matches; when none does Decode fails
\* and leaves the field as it was.
FindOneStop(ref, field) ==
    LET matching == { stop \in StopsCollection : StopFilter(stop, ref) }
    IN IF matching = {} THEN {field} ELSE { Ptr(stop) : stop \in matching }

\* a journey as loaded: no stop of its path is resolved
UnresolvedPaths ==
    { [i \in 1..k |-> [OriginStopRef |-> refs[i][1], DestinationStopRef |-> refs[i][2],
                       OriginStop |-> Nil, DestinationStop |-> Nil]] :
        <<k, refs>> \in UNION { {k} \X [1..k -> StopRefs \X StopRefs] :
                                  k \in 0..MaxPathItems } }

\* the positions a path has
PathPositions == 1..MaxPathItems

\* per path item, no goroutine yet
NoTasks == [i \in PathPositions |-> "none"]

\* per goroutine, no field written yet
NoWrites == [i \in PathPositions |-> {}]

\* no call of GetDeepReferences is set up
DeepIdle ==
    /\ deepPath = <<>>
    /\ deepPc = "idle"
    /\ deepIdx = 1
    /\ wg = 0
    /\ task = NoTasks
    /\ completed = <<>>
    /\ written = NoWrites

\* line 74: GetDeepReferences is called on a journey
DeepCalled ==
    /\ deepPath \in UnresolvedPaths
    /\ deepPc = "loop"
    /\ deepIdx = 1
    /\ wg = 0
    /\ task = NoTasks
    /\ completed = <<>>
    /\ written = NoWrites

\* lines 76-83: one iteration of the loop: wg.Add(1) and the go statement
DeepSpawn ==
    /\ deepPc = "loop"
    /\ deepIdx <= Len(deepPath)
    /\ wg' = wg + 1
    /\ task' = [task EXCEPT ![deepIdx] = "origin"]
    /\ deepIdx' = deepIdx + 1
    /\ UNCHANGED <<deepPath, deepPc, completed, written>>
    /\ UNCHANGED <<dedupVars, rtVars, queryVars, refVars, eventVars, importVars, flattenVars>>

\* line 85: the loop is over, the caller reaches wg.Wait()
DeepLoopExit ==
    /\ deepPc = "loop"
    /\ deepIdx > Len(deepPath)
    /\ deepPc' = "wait"
    /\ UNCHANGED <<deepPath, deepIdx, wg, task, completed, written>>
    /\ UNCHANGED <<dedupVars, rtVars, queryVars, refVars, eventVars, importVars, flattenVars>>

\* A mutant: Wait returns with one goroutine still running.
DeepWaitEarly ==
    /\ deepPc = "wait"
    /\ wg <= 1
    /\ deepPc' = "returned"
    /\ UNCHANGED <<deepPath, deepIdx, wg, task, completed, written>>
    /\ UNCHANGED <<dedupVars, rtVars, queryVars, refVars, eventVars, importVars, flattenVars>>

\* lines 85-86: wg.Wait() returns when the counter is zero
DeepWait ==
    /\ deepPc = "wait"
    /\ wg = 0
    /\ deepPc' = "returned"
    /\ UNCHANGED <<deepPath, deepIdx, wg, task, completed, written>>
    /\ UNCHANGED <<dedupVars, rtVars, queryVars, refVars, eventVars, importVars, flattenVars>>

\* A mutant: every goroutine works on the first path item.
GoArgumentShared(i) == 1

\* lines 78, 82: go func(path *JourneyPathItem) {...}(path): the goroutine
\* started by iteration i is handed the path item of that iteration
GoArgument(i) == i

\* lines 214-222: the goroutine of iteration i resolves the origin stop of
\* the path item it was handed
GetOriginStop(i) ==
    /\ task[i] = "origin"
    /\ LET jpi == GoArgument(i)
       IN /\ \E stop \in FindOneStop(deepPath[jpi].OriginStopRef,
                                     deepPath[jpi].OriginStop) :
                 deepPath' = [deepPath EXCEPT ![jpi].OriginStop = stop]
          /\ written' = [written EXCEPT ![i] = @ \cup {<<jpi, "OriginStop">>}]
    /\ task' = [task EXCEPT ![i] = "destination"]
    /\ UNCHANGED <<deepPc, deepIdx, wg, completed>>
    /\ UNCHANGED <<dedupVars, rtVars, queryVars, refVars, eventVars, importVars, flattenVars>>

\* lines 223-231: the goroutine of iteration i resolves the destination
\* stop of the path item it was handed
GetDestinationStop(i) ==
    /\ task[i] = "destination"
    /\ LET jpi == GoArgument(i)
       IN /\ \E stop \in FindOneStop(deepPath[jpi].DestinationStopRef,
                                     deepPath[jpi].DestinationStop) :
                 deepPath' = [deepPath EXCEPT ![jpi].DestinationStop = stop]
          /\ written' = [written EXCEPT ![i] = @ \cup {<<jpi, "DestinationStop">>}]
    /\ task' = [task EXCEPT ![i] = "wgdone"]
    /\ UNCHANGED <<deepPc, deepIdx, wg, completed>>
    /\ UNCHANGED <<dedupVars, rtVars, queryVars, refVars, eventVars, importVars, flattenVars>>

\* line 81: wg.Done(), and the goroutine ends
TaskDone(i) ==
    /\ task[i] = "wgdone"
    /\ wg' = wg - 1
    /\ task' = [task EXCEPT ![i] = "finished"]
    /\ completed' = Append(completed, i)
    /\ UNCHANGED <<deepPath, deepPc, deepIdx, written>>
    /\ UNCHANGED <<dedupVars, rtVars, queryVars, refVars, eventVars, importVars, flattenVars>>

NextDeep ==
    \/ DeepSpawn
    \/ DeepLoopExit
    \/ DeepWait
    \/ \E i \in PathPositions :
          \/ GetOriginStop(i)
          \/ GetDestinationStop(i)
          \/ TaskDone(i)

----------------------------------------------------------------------------
(* Journey.GetOperator and Journey.GetService *)

\* a bound: the calls made on one journey
MaxRefCalls == 3

\* the operators collection: two operators answer to the reference "o1",
\* one by its primary identifier and one by another identifier
OperatorsCollection ==
    { [PrimaryIdentifier |-> "o1", OtherIdentifiers |-> {"x1"}],
      [PrimaryIdentifier |-> "o2", OtherIdentifiers |-> {"o1"}] }

\* the values of j.OperatorRef; no operator answers to "zz"
OperatorRefs == {"o1", "x1", "zz"}

\* the values of j.ServiceRef; no service answers to "zz"
ServiceRefs == {"sv1", "zz"}

\* line 63: the $or query of GetOperator
OperatorQuery(operator, ref) ==
    \/ operator.PrimaryIdentifier = ref
    \/ ref \in operator.OtherIdentifiers

\* line 72: the filter of GetService
ServiceQuery(service, ref) == service.PrimaryIdentifier = ref

\* line 64: FindOne(...).Decode(&j.Operator): the values the field may have
\* afterwards; with no matching document Decode leaves it as it was
FindOneOperator(ref, field) ==
    LET matching == { o \in OperatorsCollection : OperatorQuery(o, ref) }
    IN IF matching = {} THEN {field} ELSE { Ptr(o) : o \in matching }

\* line 72: FindOne(...).Decode(&j.Service)
FindOneService(ref, field) ==
    LET matching == { sv \in ServicesCollection : ServiceQuery(sv, ref) }
    IN IF matching = {} THEN {field} ELSE { Ptr(sv) : sv \in matching }

\* the journeys the calls are made on: relations unset, or set beforehand
RefJourneys ==
    [OperatorRef : OperatorRefs,
     Operator : {Nil} \cup { Ptr(o) : o \in OperatorsCollection },
     ServiceRef : ServiceRefs,
     Service : {Nil} \cup { Ptr(sv) : sv \in ServicesCollection }]

\* what a call has done: the journey before and after, and how many
\* lookups it made in the store
RefCall(op, before, after, lookups) ==
    [op |-> op, before |-> before, after |-> after, lookups |-> lookups]

\* no call of GetOperator or GetService is set up
RefsIdle ==
    /\ refJourney = [OperatorRef |-> "", Operator |-> Nil,
                     ServiceRef |-> "", Service |-> Nil]
    /\ refPc = "idle"
    /\ refCalls = <<>>

\* a journey on which the two operations are about to be called
RefsReady ==
    /\ refJourney \in RefJourneys
    /\ refPc = "ready"
    /\ refCalls = <<>>

\* A mutant: the operator is looked up whether or not it is populated.
GetOperatorEager ==
    /\ refPc = "ready"
    /\ Len(refCalls) < MaxRefCalls
    /\ \E operator \in FindOneOperator(refJourney.OperatorRef, refJourney.Operator) :
          /\ refJourney' = [refJourney EXCEPT !.Operator = operator]
          /\ refCalls' = Append(refCalls,
                 RefCall("GetOperator", refJourney, refJourney', 1))
    /\ UNCHANGED refPc
    /\ UNCHANGED <<dedupVars, rtVars, queryVars, deepVars, eventVars, importVars, flattenVars>>

\* lines 57-65: Journey.GetOperator
GetOperator ==
    /\ refPc = "ready"
    /\ Len(refCalls) < MaxRefCalls
    /\ IF refJourney.Operator # Nil
       THEN /\ refJourney' = refJourney
            /\ refCalls' = Append(refCalls,
                   RefCall("GetOperator", refJourney, refJourney, 0))
       ELSE \E operator \in FindOneOperator(refJourney.OperatorRef,
                                            refJourney.Operator) :
               /\ refJourney' = [refJourney EXCEPT !.Operator = operator]
               /\ refCalls' = Append(refCalls,
                      RefCall("GetOperator", refJourney, refJourney', 1))
    /\ UNCHANGED refPc
    /\ UNCHANGED <<dedupVars, rtVars, queryVars, deepVars, eventVars, importVars, flattenVars>>

\* lines 66-73: Journey.GetService
GetService ==
    /\ refPc = "ready"
    /\ Len(refCalls) < MaxRefCalls
    /\ IF refJourney.Service # Nil
       THEN /\ refJourney' = refJourney
            /\ refCalls' = Append(refCalls,
                   RefCall("GetService", refJourney, refJourney, 0))
       ELSE \E service \in FindOneService(refJourney.ServiceRef,
                                          refJourney.Service) :
               /\ refJourney' = [refJourney EXCEPT !.Service = service]
               /\ refCalls' = Append(refCalls,
                      RefCall("GetService", refJourney, refJourney', 1))
    /\ UNCHANGED refPc
    /\ UNCHANGED <<dedupVars, rtVars, queryVars, deepVars, eventVars, importVars, flattenVars>>

NextRefs ==
    \/ GetOperator
    \/ GetService

----------------------------------------------------------------------------
(* The events runner: RegisterCLI "run" and EventsBatchConsumer.Consume *)

\* a bound: the consumers of the pool (NumberConsumers, cli.go line 39)
MaxConsumers == 2

\* a bound: the payloads of a batch (BatchSize, cli.go line 40)
MaxPayloads == 2

\* a bound: the batches the queue hands out
MaxBatches == 2

\* a bound: the interrupts sent to the process
MaxInterrupts == 2

\* cli.go line 46: make(chan os.Signal, 1)
SignalBuffer == 1

\* cli.go lines 37-44: the consumers set up on the queue
Consumers == 1..MaxConsumers

\* a consumer with no batch in hand
NoBatch == [pc |-> "idle", batch |-> 0, size |-> 0, processed |-> 0,
            afterStop |-> FALSE]

\* the runner is not set up
EventsIdle ==
    /\ evWorker = [w \in Consumers |-> NoBatch]
    /\ evNextBatch = 1
    /\ evAcks = <<>>
    /\ evProcess = "idle"
    /\ evMainPc = "idle"
    /\ evHard = "none"
    /\ evSignals = 0
    /\ evSent = 0
    /\ evStopping = FALSE

\* cli.go lines 44-50: the consumers are set up, the signal channel is
\* registered and the run action waits for a signal
EventsRunning ==
    /\ evWorker = [w \in Consumers |-> NoBatch]
    /\ evNextBatch = 1
    /\ evAcks = <<>>
    /\ evProcess = "running"
    /\ evMainPc = "signal"
    /\ evHard = "none"
    /\ evSignals = 0
    /\ evSent = 0
    /\ evStopping = FALSE

\* cli.go line 47: an interrupt is sent to the process; signal.Notify puts
\* it in the channel when there is room and drops it otherwise
Interrupt ==
    /\ evProcess = "running"
    /\ evSent < MaxInterrupts
    /\ evSent' = evSent + 1
    /\ evSignals' = IF evSignals < SignalBuffer THEN evSignals + 1 ELSE evSignals
    /\ UNCHANGED <<evWorker, evNextBatch, evAcks, evProcess, evMainPc, evHard,
                   evStopping>>
    /\ UNCHANGED <<dedupVars, rtVars, queryVars, deepVars, refVars, importVars, flattenVars>>

\* cli.go lines 50-56: the run action receives the first signal, starts the
\* hard-exit goroutine and calls StopAllConsuming
FirstSignal ==
    /\ evProcess = "running"
    /\ evMainPc = "signal"
    /\ evSignals > 0
    /\ evSignals' = evSignals - 1
    /\ evHard' = "armed"
    /\ evStopping' = TRUE
    /\ evMainPc' = "stop"
    /\ UNCHANGED <<evWorker, evNextBatch, evAcks, evProcess, evSent>>
    /\ UNCHANGED <<dedupVars, rtVars, queryVars, deepVars, refVars, importVars, flattenVars>>

\* A mutant: the hard exit is taken on any signal, the first included.
HardExitUnarmed ==
    /\ evProcess = "running"
    /\ evSignals > 0
    /\ evSignals' = evSignals - 1
    /\ evHard' = "fired"
    /\ evProcess' = "exit1"
    /\ UNCHANGED <<evWorker, evNextBatch, evAcks, evMainPc, evSent, evStopping>>
    /\ UNCHANGED <<dedupVars, rtVars, queryVars, deepVars, refVars, importVars, flattenVars>>

\* cli.go lines 51-54: the goroutine receives the second signal and calls
\* os.Exit(1)
HardExit ==
    /\ evProcess = "running"
    /\ evHard = "armed"
    /\ evSignals > 0
    /\ evSignals' = evSignals - 1
    /\ evHard' = "fired"
    /\ evProcess' = "exit1"
    /\ UNCHANGED <<evWorker, evNextBatch, evAcks, evMainPc, evSent, evStopping>>
    /\ UNCHANGED <<dedupVars, rtVars, queryVars, deepVars, refVars, importVars, flattenVars>>

\* cli.go lines 56-58: the channel of StopAllConsuming is closed when no
\* Consume call is running; the run action returns nil
StopAllConsumingDone ==
    /\ evProcess = "running"
    /\ evMainPc = "stop"
    /\ \A w \in Consumers : evWorker[w].pc = "idle"
    /\ evMainPc' = "returned"
    /\ evProcess' = "returned"
    /\ UNCHANGED <<evWorker, evNextBatch, evAcks, evHard, evSignals, evSent,
                   evStopping>>
    /\ UNCHANGED <<dedupVars, rtVars, queryVars, deepVars, refVars, importVars, flattenVars>>

\* consumer.go lines 17-18: a consumer that is not stopped is handed a batch
\* of the queue and Consume is called on it
ConsumeCalled(w) ==
    /\ evProcess = "running"
    /\ evWorker[w].pc = "idle"
    /\ ~evStopping
    /\ evNextBatch <= MaxBatches
    /\ \E size \in 1..MaxPayloads :
          evWorker' = [evWorker EXCEPT ![w] =
              [pc |-> "payloads", batch |-> evNextBatch, size |-> size,
               processed |-> 0, afterStop |-> evStopping]]
    /\ evNextBatch' = evNextBatch + 1
    /\ UNCHANGED <<evAcks, evProcess, evMainPc, evHard, evSignals, evSent,
                   evStopping>>
    /\ UNCHANGED <<dedupVars, rtVars, queryVars, deepVars, refVars, importVars, flattenVars>>

\* consumer.go lines 20-22: one iteration of the loop over the payloads
ProcessPayload(w) ==
    /\ evProcess = "running"
    /\ evWorker[w].pc = "payloads"
    /\ evWorker[w].processed < evWorker[w].size
    /\ evWorker' = [evWorker EXCEPT ![w].processed = @ + 1]
    /\ UNCHANGED <<evNextBatch, evAcks, evProcess, evMainPc, evHard, evSignals,
                   evSent, evStopping>>
    /\ UNCHANGED <<dedupVars, rtVars, queryVars, deepVars, refVars, importVars, flattenVars>>

\* line 24: len(ackErrors), the number of deliveries of the batch whose
\* acknowledgment failed: none, or any number of them
AckErrors(size) == 0..size

\* A mutant: the batch is acknowledged whatever part of it was processed,
\* and an error of the acknowledgment is passed over.
AckAtOnce(w) ==
    /\ evProcess = "running"
    /\ evWorker[w].pc = "payloads"
    /\ \E ackErrors \in AckErrors(evWorker[w].size) :
          evAcks' = Append(evAcks,
              [batch |-> evWorker[w].batch, consumer |-> w,
               size |-> evWorker[w].size, processed |-> evWorker[w].processed,
               ackErrors |-> ackErrors])
    /\ evWorker' = [evWorker EXCEPT ![w] = NoBatch]
    /\ UNCHANGED <<evNextBatch, evProcess, evMainPc, evHard, evSignals, evSent,
                   evStopping>>
    /\ UNCHANGED <<dedupVars, rtVars, queryVars, deepVars, refVars, importVars, flattenVars>>

\* consumer.go lines 24-29: after the loop the batch is acknowledged in one
\* call; with any error log.Fatal ends the process, otherwise Consume returns
Ack(w) ==
    /\ evProcess = "running"
    /\ evWorker[w].pc = "payloads"
    /\ evWorker[w].processed = evWorker[w].size
    /\ \E ackErrors \in AckErrors(evWorker[w].size) :
          /\ evAcks' = Append(evAcks,
                 [batch |-> evWorker[w].batch, consumer |-> w,
                  size |-> evWorker[w].size, processed |-> evWorker[w].processed,
                  ackErrors |-> ackErrors])
          /\ IF ackErrors > 0
             THEN /\ evProcess' = "fatal"
                  /\ evWorker' = [evWorker EXCEPT ![w].pc = "fatal"]
             ELSE /\ evProcess' = evProcess
                  /\ evWorker' = [evWorker EXCEPT ![w] = NoBatch]
    /\ UNCHANGED <<evNextBatch, evMainPc, evHard, evSignals, evSent, evStopping>>
    /\ UNCHANGED <<dedupVars, rtVars, queryVars, deepVars, refVars, importVars, flattenVars>>

NextEvents ==
    \/ Interrupt
    \/ FirstSignal
    \/ HardExit
    \/ StopAllConsumingDone
    \/ \E w \in Consumers :
          \/ ConsumeCalled(w)
          \/ ProcessPayload(w)
          \/ Ack(w)

----------------------------------------------------------------------------
(* GetRegisteredDataSets, the DownloadHandlers and the import run *)

\* one entry of the list: the fields the import order and the request
\* depend on; Query is the query string of Source, as key-value pairs
DataSet(identifier, linkedDataset, downloadHandler, query) ==
    [Identifier |-> identifier, LinkedDataset |-> linkedDataset,
     DownloadHandler |-> downloadHandler, Query |-> query]

\* lines 16-199: the registered datasets, in the order of the list
GetRegisteredDataSets ==
    << DataSet("gb-traveline-noc", "", "none", {}),
       DataSet("gb-dft-naptan", "", "none", {<<"dataFormat", "xml">>}),
       DataSet("gb-nationalrail-toc", "", "nationalrail", {}),
       DataSet("gb-networkrail-corpus", "", "networkrail", {<<"type", "CORPUS">>}),
       DataSet("gb-dft-bods-sirivm-all", "", "bods", {}),
       DataSet("gb-dft-bods-gtfs-realtime", "gb-dft-bods-gtfs-schedule", "bods", {}),
       DataSet("gb-dft-bods-gtfs-schedule", "", "bods", {}),
       DataSet("gb-nationalrail-timetable", "", "nationalrail", {}),
       DataSet("ie-gtfs-schedule", "", "none", {}) >>

\* the positions of the list
DataSetIndex == 1..Len(GetRegisteredDataSets)

\* the position of the dataset with an identifier; 0 when there is none
IndexOf(identifier) ==
    IF \E i \in DataSetIndex : GetRegisteredDataSets[i].Identifier = identifier
    THEN CHOOSE i \in DataSetIndex : GetRegisteredDataSets[i].Identifier = identifier
    ELSE 0

\* lines 81-84, 107, 203-206: the environment variables the handlers read
EnvironmentVariables ==
    { "TRAVIGO_NATIONALRAIL_USERNAME", "TRAVIGO_NATIONALRAIL_PASSWORD",
      "TRAVIGO_NETWORKRAIL_USERNAME", "TRAVIGO_NETWORKRAIL_PASSWORD",
      "TRAVIGO_BODS_API_KEY" }

\* the environments of a run: each variable unset ("") or set to a value
Environments ==
    { [v \in EnvironmentVariables |-> IF v \in S THEN "val-" \o v ELSE ""] :
        S \in SUBSET EnvironmentVariables }

\* the outgoing request of a dataset before its handler runs
NewRequest(d) ==
    [Header |-> {}, BasicAuth |-> Nil, RawQuery |-> GetRegisteredDataSets[d].Query]

\* net/url: URL.Query() parses RawQuery into a new Values
URLQuery(r) == r.RawQuery

\* net/url: Values.Add on a Values
ValuesAdd(values, key, value) == values \cup {<<key, value>>}

\* net/http: Header.Set replaces the values of the key
HeaderSet(r, key, value) ==
    [r EXCEPT !.Header = { h \in @ : h[1] # key } \cup {<<key, value>>}]

\* net/http: Request.SetBasicAuth
SetBasicAuth(r, username, password) ==
    [r EXCEPT !.BasicAuth = Ptr(<<username, password>>)]

\* lines 223-239: how the login request may go: a transport error, a
\* response that carries a token, a response that carries none
LoginOutcomes == {"error", "token", "notoken"}

\* lines 234-239: the token nationalRailLogin returns
LoginToken(outcome) == IF outcome = "token" THEN "nr-token" ELSE ""

\* no import run is set up
ImportIdle ==
    /\ impEnv = [v \in EnvironmentVariables |-> ""]
    /\ impProcess = "idle"
    /\ dsState = [d \in DataSetIndex |-> "pending"]
    /\ dsRequest = [d \in DataSetIndex |-> NewRequest(d)]
    /\ dsSent = [d \in DataSetIndex |-> Nil]
    /\ dsLogin = [d \in DataSetIndex |-> ""]

\* an import run starts in some environment, no dataset begun
ImportStarted ==
    /\ impEnv \in Environments
    /\ impProcess = "running"
    /\ dsState = [d \in DataSetIndex |-> "pending"]
    /\ dsRequest = [d \in DataSetIndex |-> NewRequest(d)]
    /\ dsSent = [d \in DataSetIndex |-> Nil]
    /\ dsLogin = [d \in DataSetIndex |-> ""]

\* the import of no dataset is under way
NoneImporting == \A d \in DataSetIndex : dsState[d] \notin {"hook", "fetch"}

\* the dataset has no prerequisite, or its prerequisite is in one of states
PrerequisiteIn(d, states) ==
    LET linked == GetRegisteredDataSets[d].LinkedDataset
    IN IF linked = "" THEN "completed" \in states
       ELSE IndexOf(linked) # 0 /\ dsState[IndexOf(linked)] \in states

\* A mutant: the datasets are begun in the order of the list.
BeginImportInListOrder(d) ==
    /\ impProcess = "running"
    /\ NoneImporting
    /\ dsState[d] = "pending"
    /\ \A e \in DataSetIndex : e < d => dsState[e] # "pending"
    /\ dsState' = [dsState EXCEPT ![d] = "hook"]
    /\ UNCHANGED <<impEnv, impProcess, dsRequest, dsSent, dsLogin>>
    /\ UNCHANGED <<dedupVars, rtVars, queryVars, deepVars, refVars, eventVars, flattenVars>>

\* the run begins the next dataset: the first of the list that is still to
\* import and whose prerequisite, if it names one, has completed
BeginImport(d) ==
    /\ impProcess = "running"
    /\ NoneImporting
    /\ dsState[d] = "pending"
    /\ PrerequisiteIn(d, {"completed"})
    /\ \A e \in DataSetIndex :
          (e < d /\ dsState[e] = "pending") => ~PrerequisiteIn(e, {"completed"})
    /\ dsState' = [dsState EXCEPT ![d] = "hook"]
    /\ UNCHANGED <<impEnv, impProcess, dsRequest, dsSent, dsLogin>>
    /\ UNCHANGED <<dedupVars, rtVars, queryVars, deepVars, refVars, eventVars, flattenVars>>

\* a dataset whose prerequisite did not complete is skipped for the run
SkipDependent(d) ==
    /\ impProcess = "running"
    /\ NoneImporting
    /\ dsState[d] = "pending"
    /\ PrerequisiteIn(d, {"failed", "skipped"})
    /\ dsState' = [dsState EXCEPT ![d] = "skipped"]
    /\ UNCHANGED <<impEnv, impProcess, dsRequest, dsSent, dsLogin>>
    /\ UNCHANGED <<dedupVars, rtVars, queryVars, deepVars, refVars, eventVars, flattenVars>>

\* a dataset without a DownloadHandler: the request goes out as it is
NoDownloadHandler(d) ==
    /\ impProcess = "running"
    /\ dsState[d] = "hook"
    /\ GetRegisteredDataSets[d].DownloadHandler = "none"
    /\ dsState' = [dsState EXCEPT ![d] = "fetch"]
    /\ UNCHANGED <<impEnv, impProcess, dsRequest, dsSent, dsLogin>>
    /\ UNCHANGED <<dedupVars, rtVars, queryVars, deepVars, refVars, eventVars, flattenVars>>

\* lines 60-63, 176-179 with nationalRailLogin, lines 201-240: log.Fatal
\* when a variable is unset or the request fails, else the token of the
\* response is set as X-Auth-Token
NationalRailDownloadHandler(d) ==
    /\ impProcess = "running"
    /\ dsState[d] = "hook"
    /\ GetRegisteredDataSets[d].DownloadHandler = "nationalrail"
    /\ IF \/ impEnv["TRAVIGO_NATIONALRAIL_USERNAME"] = ""
          \/ impEnv["TRAVIGO_NATIONALRAIL_PASSWORD"] = ""
       THEN /\ impProcess' = "fatal"
            /\ dsState' = [dsState EXCEPT ![d] = "hookfailed"]
            /\ UNCHANGED <<dsRequest, dsLogin>>
       ELSE \E outcome \in LoginOutcomes :
               /\ dsLogin' = [dsLogin EXCEPT ![d] = outcome]
               /\ IF outcome = "error"
                  THEN /\ impProcess' = "fatal"
                       /\ dsState' = [dsState EXCEPT ![d] = "hookfailed"]
                       /\ UNCHANGED dsRequest
                  ELSE /\ dsRequest' = [dsRequest EXCEPT ![d] =
                              HeaderSet(@, "X-Auth-Token", LoginToken(outcome))]
                       /\ dsState' = [dsState EXCEPT ![d] = "fetch"]
                       /\ UNCHANGED impProcess
    /\ UNCHANGED <<impEnv, dsSent>>
    /\ UNCHANGED <<dedupVars, rtVars, queryVars, deepVars, refVars, eventVars, flattenVars>>

\* lines 79-89: log.Fatal when a variable is unset, else basic auth
NetworkRailDownloadHandler(d) ==
    /\ impProcess = "running"
    /\ dsState[d] = "hook"
    /\ GetRegisteredDataSets[d].DownloadHandler = "networkrail"
    /\ IF \/ impEnv["TRAVIGO_NETWORKRAIL_USERNAME"] = ""
          \/ impEnv["TRAVIGO_NETWORKRAIL_PASSWORD"] = ""
       THEN /\ impProcess' = "fatal"
            /\ dsState' = [dsState EXCEPT ![d] = "hookfailed"]
            /\ UNCHANGED dsRequest
       ELSE /\ dsRequest' = [dsRequest EXCEPT ![d] =
                   SetBasicAuth(@, impEnv["TRAVIGO_NETWORKRAIL_USERNAME"],
                                impEnv["TRAVIGO_NETWORKRAIL_PASSWORD"])]
            /\ dsState' = [dsState EXCEPT ![d] = "fetch"]
            /\ UNCHANGED impProcess
    /\ UNCHANGED <<impEnv, dsSent, dsLogin>>
    /\ UNCHANGED <<dedupVars, rtVars, queryVars, deepVars, refVars, eventVars, flattenVars>>

\* lines 111, 136, 159: r.URL.Query().Add("api_key", key): Query() returns
\* a new Values, the key is added to that Values and the Values is dropped;
\* the request keeps the URL it had
AddApiKey(r, key) ==
    LET values == ValuesAdd(URLQuery(r), "api_key", key)
    IN r

\* lines 105-112, 130-137, 153-160: log.Fatal when the key is unset, else
\* the key is added to the query of the request URL as AddApiKey does
BodsDownloadHandler(d) ==
    /\ impProcess = "running"
    /\ dsState[d] = "hook"
    /\ GetRegisteredDataSets[d].DownloadHandler = "bods"
    /\ IF impEnv["TRAVIGO_BODS_API_KEY"] = ""
       THEN /\ impProcess' = "fatal"
            /\ dsState' = [dsState EXCEPT ![d] = "hookfailed"]
            /\ UNCHANGED dsRequest
       ELSE /\ dsRequest' = [dsRequest EXCEPT ![d] =
                   AddApiKey(@, impEnv["TRAVIGO_BODS_API_KEY"])]
            /\ dsState' = [dsState EXCEPT ![d] = "fetch"]
            /\ UNCHANGED impProcess
    /\ UNCHANGED <<impEnv, dsSent, dsLogin>>
    /\ UNCHANGED <<dedupVars, rtVars, queryVars, deepVars, refVars, eventVars, flattenVars>>

\* the request is sent and the import of the dataset completes
FetchCompletes(d) ==
    /\ impProcess = "running"
    /\ dsState[d] = "fetch"
    /\ dsSent' = [dsSent EXCEPT ![d] = Ptr(dsRequest[d])]
    /\ dsState' = [dsState EXCEPT ![d] = "completed"]
    /\ UNCHANGED <<impEnv, impProcess, dsRequest, dsLogin>>
    /\ UNCHANGED <<dedupVars, rtVars, queryVars, deepVars, refVars, eventVars, flattenVars>>

\* the request is sent and the fetch or the parse of the dataset fails:
\* the dataset is given up for the run
FetchFails(d) ==
    /\ impProcess = "running"
    /\ dsState[d] = "fetch"
    /\ dsSent' = [dsSent EXCEPT ![d] = Ptr(dsRequest[d])]
    /\ dsState' = [dsState EXCEPT ![d] = "failed"]
    /\ UNCHANGED <<impEnv, impProcess, dsRequest, dsLogin>>
    /\ UNCHANGED <<dedupVars, rtVars, queryVars, deepVars, refVars, eventVars, flattenVars>>

NextImport ==
    \E d \in DataSetIndex :
       \/ BeginImport(d)
       \/ SkipDependent(d)
       \/ NoDownloadHandler(d)
       \/ NationalRailDownloadHandler(d)
       \/ NetworkRailDownloadHandler(d)
       \/ BodsDownloadHandler(d)
       \/ FetchCompletes(d)
       \/ FetchFails(d)

----------------------------------------------------------------------------
(* Journey.FlattenStops *)

\* a bound: the path items of the journey
MaxFlattenItems == 3

\* the stops a journey may call at
FlattenStopRefs == {"A", "B", "C"}

\* the path of a journey that calls at the stops of s in turn: item i runs
\* from s[i] to s[i + 1]; the times follow the position
PathThrough(s) ==
    [i \in 1..(Len(s) - 1) |->
        [OriginStopRef |-> s[i], DestinationStopRef |-> s[i + 1],
         OriginArrivalTime |-> 10 * i, OriginDepartureTime |-> 10 * i + 1,
         DestinationArrivalTime |-> 10 * i + 9]]

\* the paths FlattenStops is called on: the empty one, and those of the
\* journeys that call at two stops or more, a stop possibly more than once
FlattenPaths ==
    {<<>>} \cup { PathThrough(s) :
                    s \in UNION { [1..(k + 1) -> FlattenStopRefs] :
                                    k \in 1..MaxFlattenItems } }

\* m[key] = value on a Go map held as a set of pairs
MapSet(m, key, value) == { e \in m : e[1] # key } \cup {<<key, value>>}

\* no call of FlattenStops is set up
FlattenIdle ==
    /\ flatPath = <<>>
    /\ flatPc = "idle"
    /\ flatIdx = 1
    /\ stops = <<>>
    /\ arrivalTimes = {}
    /\ departureTimes = {}
    /\ alreadySeen = {}

\* lines 139-143: FlattenStops is called, its locals are empty
FlattenCalled ==
    /\ flatPath \in FlattenPaths
    /\ flatPc = "loop"
    /\ flatIdx = 1
    /\ stops = <<>>
    /\ arrivalTimes = {}
    /\ departureTimes = {}
    /\ alreadySeen = {}

\* lines 145-154: one iteration of the loop over the path
FlattenLoop ==
    /\ flatPc = "loop"
    /\ flatIdx <= Len(flatPath)
    /\ LET pathItem == flatPath[flatIdx]
       IN IF pathItem.OriginStopRef \notin alreadySeen
          THEN /\ stops' = Append(stops, pathItem.OriginStopRef)
               /\ arrivalTimes' = MapSet(arrivalTimes, pathItem.OriginStopRef,
                                         pathItem.OriginArrivalTime)
               /\ departureTimes' = MapSet(departureTimes, pathItem.OriginStopRef,
                                           pathItem.OriginDepartureTime)
               /\ alreadySeen' = alreadySeen \cup {pathItem.OriginStopRef}
          ELSE UNCHANGED <<stops, arrivalTimes, departureTimes, alreadySeen>>
    /\ flatIdx' = flatIdx + 1
    /\ UNCHANGED <<flatPath, flatPc>>
    /\ UNCHANGED <<dedupVars, rtVars, queryVars, deepVars, refVars, eventVars,
                   importVars>>

\* lines 156-165: after the loop j.Path[len(j.Path)-1] is read, which
\* panics on an empty path; the origin stop of that item is added when it
\* was not seen, and the three results are returned
FlattenLast ==
    /\ flatPc = "loop"
    /\ flatIdx > Len(flatPath)
    /\ IF Len(flatPath) = 0
       THEN /\ flatPc' = "panic"
            /\ UNCHANGED <<stops, arrivalTimes, departureTimes>>
       ELSE LET lastPathItem == flatPath[Len(flatPath)]
            IN /\ flatPc' = "returned"
               /\ IF lastPathItem.OriginStopRef \notin alreadySeen
                  THEN /\ stops' = Append(stops, lastPathItem.OriginStopRef)
                       /\ arrivalTimes' = MapSet(arrivalTimes,
                              lastPathItem.OriginStopRef,
                              lastPathItem.OriginArrivalTime)
                       /\ departureTimes' = MapSet(departureTimes,
                              lastPathItem.OriginStopRef,
                              lastPathItem.OriginDepartureTime)
                  ELSE UNCHANGED <<stops, arrivalTimes, departureTimes>>
    /\ UNCHANGED <<flatPath, flatIdx, alreadySeen>>
    /\ UNCHANGED <<dedupVars, rtVars, queryVars, deepVars, refVars, eventVars,
                   importVars>>

NextFlatten == FlattenLoop \/ FlattenLast

----------------------------------------------------------------------------
(* The specifications *)

InitDedup == DedupCalled /\ RealtimeIdle /\ QueryIdle /\ DeepIdle /\ RefsIdle /\ EventsIdle /\ ImportIdle /\ FlattenIdle

InitRealtime == DedupIdle /\ RealtimeReady /\ QueryIdle /\ DeepIdle /\ RefsIdle /\ EventsIdle /\ ImportIdle /\ FlattenIdle

InitQuery == DedupIdle /\ RealtimeIdle /\ QueryReady /\ DeepIdle /\ RefsIdle /\ EventsIdle /\ ImportIdle /\ FlattenIdle

InitDeep == DedupIdle /\ RealtimeIdle /\ QueryIdle /\ DeepCalled /\ RefsIdle /\ EventsIdle /\ ImportIdle /\ FlattenIdle

InitRefs == DedupIdle /\ RealtimeIdle /\ QueryIdle /\ DeepIdle /\ RefsReady /\ EventsIdle /\ ImportIdle /\ FlattenIdle

InitEvents == DedupIdle /\ RealtimeIdle /\ QueryIdle /\ DeepIdle /\ RefsIdle /\ EventsRunning /\ ImportIdle /\ FlattenIdle

InitImport == DedupIdle /\ RealtimeIdle /\ QueryIdle /\ DeepIdle /\ RefsIdle /\ EventsIdle /\ ImportStarted /\ FlattenIdle

InitFlatten == DedupIdle /\ RealtimeIdle /\ QueryIdle /\ DeepIdle /\ RefsIdle /\ EventsIdle /\ ImportIdle /\ FlattenCalled

SpecDedup == InitDedup /\ [][NextDedup]_vars

SpecRealtime == InitRealtime /\ [][NextRealtime]_vars

SpecQuery == InitQuery /\ [][NextQuery]_vars

SpecDeep == InitDeep /\ [][NextDeep]_vars

SpecRefs == InitRefs /\ [][NextRefs]_vars

SpecEvents == InitEvents /\ [][NextEvents]_vars

SpecImport == InitImport /\ [][NextImport]_vars

SpecFlatten == InitFlatten /\ [][NextFlatten]_vars

Init == InitDedup \/ InitRealtime \/ InitQuery \/ InitDeep \/ InitRefs \/ InitEvents \/ InitImport \/ InitFlatten

Next == NextDedup \/ NextRealtime \/ NextQuery \/ NextDeep \/ NextRefs \/ NextEvents \/ NextImport \/ NextFlatten

Spec == Init /\ [][Next]_vars

----------------------------------------------------------------------------
(* Properties of the fingerprint and of the deduplication *)

\* the elements of s at the positions in I, in their order
RECURSIVE Pick(_, _, _)
Pick(s, I, k) ==
    IF k > Len(s) THEN <<>>
    ELSE (IF k \in I THEN <<s[k]>> ELSE <<>>) \o Pick(s, I, k + 1)

\* the positions whose fingerprint differs from that of every earlier position
FirstOfFingerprint(js, flag) ==
    { i \in 1..Len(js) :
        \A k \in 1..(i - 1) :
            GenerateFunctionalHash(js[k], flag) # GenerateFunctionalHash(js[i], flag) }

\* C1: for every input and either flag value FilterIdenticalJourneys returns,
\* and what it returns is the subsequence of the journeys whose fingerprint
\* differs from that of every earlier journey.
C1_ReturnsFirstOfEachFingerprint ==
    /\ filterPc # "panic"
    /\ filterPc = "done" =>
         filtered = Pick(journeys, FirstOfFingerprint(journeys,
                                       includeAvailabilityCondition), 1)

\* the fields the fingerprint is said to be a function of
AgreeOnFunctionalFields(a, b, flag) ==
    /\ a.ServiceRef = b.ServiceRef
    /\ a.DestinationDisplay = b.DestinationDisplay
    /\ a.Direction = b.Direction
    /\ a.DepartureTime = b.DepartureTime
    /\ a.Path = b.Path
    /\ flag => a.Availability = b.Availability

\* C2: two journeys that agree on the functionally significant fields (with
\* the flag set, on the availability too) get the same fingerprint, whatever
\* their other fields are; so does one journey fingerprinted twice.
C2_FingerprintOfFunctionalFieldsOnly ==
    \A a, b \in 1..Len(hashLog) :
        AgreeOnFunctionalFields(journeys[a], journeys[b],
                                includeAvailabilityCondition)
            => hashLog[a] = hashLog[b]

\* two journeys that differ in a field outside the fingerprint were both
\* fingerprinted, with the flag set, and got the same digest
C2_Witness ==
    /\ includeAvailabilityCondition
    /\ Len(hashLog) = 2
    /\ journeys[1] # journeys[2]
    /\ journeys[1].CreationDateTime # journeys[2].CreationDateTime
    /\ AgreeOnFunctionalFields(journeys[1], journeys[2], TRUE)
    /\ hashLog[1] = hashLog[2]
    /\ hashLog[1] # Panic

PathFields == {"OriginStopRef", "OriginArrivalTime", "OriginDepartureTime",
               "DestinationStopRef", "DestinationArrivalTime"}
RuleLists == {"Match", "MatchSecondary", "Exclude", "Condition"}
RuleFields == {"Type", "Value", "Description"}

\* a and b have paths of one length and rule lists of the same lengths
SameShape(a, b) ==
    /\ Len(a.Path) = Len(b.Path)
    /\ (a.Availability = Nil) = (b.Availability = Nil)
    /\ a.Availability # Nil =>
         \A l \in RuleLists : Len(a.Availability[1][l]) = Len(b.Availability[1][l])

\* the places, among those C3 names, where a and b differ
MutatedPlaces(a, b) ==
    (IF a.DepartureTime = b.DepartureTime THEN {}
     ELSE {<<"DepartureTime", 0, "">>})
    \cup { <<"Path", p, f>> : <<p, f>> \in
             { <<p, f>> \in (1..Len(a.Path)) \X PathFields :
                 a.Path[p][f] # b.Path[p][f] } }
    \cup (IF a.Availability = Nil THEN {}
          ELSE UNION { { <<l, r, f>> : <<r, f>> \in
                           { <<r, f>> \in (1..Len(a.Availability[1][l])) \X RuleFields :
                               a.Availability[1][l][r][f] # b.Availability[1][l][r][f] } }
                       : l \in RuleLists })

\* b is a with one of the fields C3 names mutated, and nothing else changed
SingleFieldMutation(a, b, flag) ==
    /\ SameShape(a, b)
    /\ \A f \in {"PrimaryIdentifier", "OtherIdentifiers", "CreationDateTime",
                 "ModificationDateTime", "ServiceRef", "OperatorRef",
                 "Direction", "DestinationDisplay"} : a[f] = b[f]
    /\ Cardinality(MutatedPlaces(a, b)) = 1
    /\ \A m \in MutatedPlaces(a, b) : m[1] \in RuleLists => flag

\* C3: mutating one functionally significant field of a journey (its
\* DepartureTime, one of the five stop and time fields of a path item or,
\* with the flag set, the Type, Value or Description of an availability
\* rule) changes the fingerprint.
C3_SingleMutationChangesFingerprint ==
    \A a, b \in 1..Len(hashLog) :
        SingleFieldMutation(journeys[a], journeys[b],
                            includeAvailabilityCondition)
            => hashLog[a] # hashLog[b]

\* a and b agree everywhere but in one rule of Availability.Condition
DifferInOneConditionRule(a, b) ==
    /\ SameShape(a, b)
    /\ a.Availability # Nil
    /\ [a EXCEPT !.Availability = Nil] = [b EXCEPT !.Availability = Nil]
    /\ \A l \in RuleLists \ {"Condition"} :
           a.Availability[1][l] = b.Availability[1][l]
    /\ Cardinality({ r \in 1..Len(a.Availability[1].Condition) :
           a.Availability[1].Condition[r] # b.Availability[1].Condition[r] }) = 1

\* C4: of two journeys that differ in one Availability.Condition rule only,
\* FilterIdenticalJourneys keeps both with the flag set and the first one
\* alone with the flag unset.
C4_FlagDecidesAvailability ==
    (/\ filterPc = "done"
     /\ Len(journeys) = 2
     /\ DifferInOneConditionRule(journeys[1], journeys[2]))
        => filtered = (IF includeAvailabilityCondition THEN journeys
                       ELSE <<journeys[1]>>)

----------------------------------------------------------------------------
(* Properties of the realtime overlay *)

\* the realtime journeys stored for the journey when the last call was made
StoredForJourney ==
    { doc \in rtCall.docs : doc.journey = rtJourney.PrimaryIdentifier }

\* C5: the call attaches a realtime journey exactly when its age is at most
\* the cutoff (an age of exactly the cutoff included) and it is active, and
\* the overlay is absent otherwise. Stated for a journey without an overlay
\* and one realtime journey stored for it, where no other record and no
\* earlier overlay can decide the outcome.
C5_OverlayIffWithinCutoffAndActive ==
    (/\ rtPc = "done"
     /\ rtCall.before = Nil
     /\ Cardinality(StoredForJourney) = 1)
        => \A doc \in StoredForJourney :
              rtJourney.RealtimeJourney =
                  IF rtCall.now - doc.mod <= RealtimeCutoff /\ IsActive(doc)
                  THEN Ptr(doc) ELSE Nil

\* the realtime journeys stored for the journey that no other is newer than
MostRecentlyModified ==
    { doc \in StoredForJourney :
        \A other \in StoredForJourney : other.mod <= doc.mod }

\* C6: with several realtime journeys stored for the journey, the most
\* recently modified one, when it is within the cutoff and active, is the
\* one attached.
C6_MostRecentlyModifiedIsAttached ==
    (/\ rtPc = "done"
     /\ Cardinality(MostRecentlyModified) = 1)
        => \A doc \in MostRecentlyModified :
              (rtCall.now - doc.mod < RealtimeCutoff /\ IsActive(doc))
                  => rtJourney.RealtimeJourney = Ptr(doc)

----------------------------------------------------------------------------
(* Properties of the cached query *)

\* the cache key of the query for a stop, as the interface gives it
ServicesByStopKey(stop) ==
    <<"cachedresults/servicesbystopquery/", stop.PrimaryIdentifier>>

\* the entry that holds a value, written by the query
EntryOf(value) == Ptr([value |-> value, ttl |-> 24, decodable |-> TRUE])

\* C7: a call that finds the cache empty performs exactly one store
\* computation and leaves its result under
\* cachedresults/servicesbystopquery/<stop>; a call for the same stop made
\* after it has returned, before any entry expires, reads nothing from the
\* store and returns the same value, an empty one included.
C7_FirstCallComputesSecondCallHits ==
    \A a \in Calls :
        /\ (call[a].pc = "done" /\ call[a].sawEmptyCache)
              => /\ ~call[a].hit
                 /\ call[a].computations = 1
        /\ (/\ call[a].pc = "done"
            /\ ~call[a].hit
            /\ ~expired
            /\ \A b \in Calls \ {a} : call[b].computations = 0)
              => /\ ServicesByStopKey(call[a].stop[1]) \in DOMAIN cache
                 /\ cache[ServicesByStopKey(call[a].stop[1])]
                        = EntryOf(call[a].result[1])
        /\ \A b \in Calls :
              (call[b].pc = "done" /\ a \in call[b].follows /\ ~expired)
                 => /\ call[b].storeReads = 0
                    /\ call[b].computations = 0
                    /\ call[b].result = call[a].result

\* a call found the cache empty, computed an empty result and returned; the
\* next call for the stop returned that empty result without a store read
C7_Witness ==
    \E a, b \in Calls :
        /\ call[a].pc = "done"
        /\ call[a].sawEmptyCache
        /\ call[a].computations = 1
        /\ call[a].result = Ptr(<<>>)
        /\ call[b].pc = "done"
        /\ a \in call[b].follows
        /\ ~expired
        /\ call[b].storeReads = 0
        /\ call[b].result = Ptr(<<>>)

\* C8: no call ends abnormally, whatever the cache read, the scan and the
\* service lookups do: a call that has run to its end has returned a result.
C8_NoFailureSurfaces ==
    \A c \in Calls : call[c].pc # "panic"

\* what a call returned was built from the journeys its own Find yielded:
\* one transformed service for each service reference, none twice
OwnComputation(c) ==
    LET services == call[c].result[1]
    IN /\ call[c].result = Ptr(call[c].services)
       /\ \A i \in 1..Len(services) :
            /\ services[i].transformed
            /\ \E n \in 1..Len(call[c].found) :
                 call[c].found[n].ServiceRef = services[i].PrimaryIdentifier
            /\ \A k \in 1..Len(services) :
                 services[k].PrimaryIdentifier = services[i].PrimaryIdentifier
                     => k = i

\* C9: two calls for one stop that both missed the cache each performed one
\* store computation of their own and returned what it computed; the cache
\* then holds, with a TTL of 24 hours, the value of the call that wrote
\* last, until that entry expires.
C9_ConcurrentMissesLastWriteWins ==
    \A a, b \in Calls :
        (/\ a # b
         /\ call[a].pc = "done" /\ call[b].pc = "done"
         /\ ~call[a].hit /\ ~call[b].hit
         /\ call[a].stop = call[b].stop)
           => /\ call[a].computations = 1 /\ call[b].computations = 1
              /\ OwnComputation(a) /\ OwnComputation(b)
              /\ LET k == ServicesByStopKey(call[a].stop[1])
                 IN /\ k \in DOMAIN cache
                    /\ lastWriter[k] \in {a, b, ""}
                    /\ cache[k] = IF lastWriter[k] = "" THEN Nil
                                  ELSE EntryOf(call[lastWriter[k]].result[1])

\* both calls found the cache empty, no entry has expired, they computed
\* different results, and the cache holds the result of the last writer
C9_Witness ==
    \E a, b \in Calls :
        /\ a # b
        /\ call[a].pc = "done" /\ call[b].pc = "done"
        /\ call[a].sawEmptyCache /\ call[b].sawEmptyCache
        /\ ~expired
        /\ call[a].stop = call[b].stop
        /\ call[a].result # call[b].result
        /\ lastWriter[ServicesByStopKey(call[a].stop[1])] = a
        /\ cache[ServicesByStopKey(call[a].stop[1])] = EntryOf(call[a].result[1])

----------------------------------------------------------------------------
(* Properties of the concurrent resolution *)

\* the stop field holds a stop that answers to the reference, or nothing
\* when no stop of the collection does
Resolved(ref, field) ==
    IF \E stop \in StopsCollection : stop.PrimaryIdentifier = ref \/ ref \in stop.Platforms
    THEN /\ field # Nil
         /\ field[1] \in StopsCollection
         /\ field[1].PrimaryIdentifier = ref \/ ref \in field[1].Platforms
    ELSE field = Nil

OwnFields(i) == { <<i, "OriginStop">>, <<i, "DestinationStop">> }

\* C11: no two resolution tasks write the same field: each task writes only
\* the OriginStop and DestinationStop of its own path item, a task that has
\* finished has written both, and when the call has returned every stop
\* field holds what the lookup of its own reference gives, whatever the
\* order the tasks ran and ended in.
C11_TasksWriteDisjointFields ==
    /\ \A i \in PathPositions : written[i] \subseteq OwnFields(i)
    /\ \A i, k \in PathPositions : i # k => written[i] \cap written[k] = {}
    /\ \A i \in 1..Len(deepPath) :
          task[i] \in {"wgdone", "finished"} => written[i] = OwnFields(i)
    /\ deepPc = "returned" =>
          \A i \in 1..Len(deepPath) :
             /\ deepPath[i].OriginStop
                   \in FindOneStop(deepPath[i].OriginStopRef, Nil)
             /\ deepPath[i].DestinationStop
                   \in FindOneStop(deepPath[i].DestinationStopRef, Nil)

\* two tasks run at once: the second has written both its fields while the
\* first has written its origin stop only, and both look up the same
\* references
C11_Witness ==
    /\ deepPc = "wait"
    /\ Len(deepPath) = 2
    /\ task[1] = "destination"
    /\ task[2] = "wgdone"
    /\ written[1] = {<<1, "OriginStop">>}
    /\ written[2] = OwnFields(2)
    /\ deepPath[1].OriginStopRef = deepPath[2].OriginStopRef
    /\ deepPath[1].OriginStop # Nil
    /\ deepPath[1].DestinationStop = Nil

----------------------------------------------------------------------------
(* Properties of the lazy relations *)

\* the relation field an operation fills, and the reference it looks up
RelationOf(op) == IF op = "GetOperator" THEN "Operator" ELSE "Service"

\* the documents of the store that answer to the reference of the journey
Answering(op, journey) ==
    IF op = "GetOperator"
    THEN { o \in OperatorsCollection :
             \/ o.PrimaryIdentifier = journey.OperatorRef
             \/ journey.OperatorRef \in o.OtherIdentifiers }
    ELSE { sv \in ServicesCollection : sv.PrimaryIdentifier = journey.ServiceRef }

----------------------------------------------------------------------------
(* Properties of the events runner *)

\* the batches batch.Ack() has been called on
AckedBatches == { evAcks[n].batch : n \in 1..Len(evAcks) }

\* C13: every payload of a batch is processed before the batch is
\* acknowledged; a batch is acknowledged by one call, once; when the call
\* reports an error the process terminates there, so that no consumer goes
\* on to another batch; a batch still being processed is not acknowledged.
C13_ProcessedThenAckedOrFatal ==
    /\ \A n \in 1..Len(evAcks) :
          /\ evAcks[n].processed = evAcks[n].size
          /\ evAcks[n].ackErrors > 0 =>
                /\ n = Len(evAcks)
                /\ evProcess = "fatal"
                /\ evWorker[evAcks[n].consumer].pc = "fatal"
                /\ evWorker[evAcks[n].consumer].batch = evAcks[n].batch
    /\ \A n, m \in 1..Len(evAcks) : n # m => evAcks[n].batch # evAcks[m].batch
    /\ \A w \in Consumers :
          evWorker[w].pc = "payloads" => evWorker[w].batch \notin AckedBatches
    /\ evProcess = "fatal" =>
          /\ Len(evAcks) > 0
          /\ evAcks[Len(evAcks)].ackErrors > 0

\* a batch of two payloads was acknowledged by one consumer; then the
\* acknowledgment of the other consumer's batch failed for one of its two
\* deliveries and the process ended
C13_Witness ==
    /\ evProcess = "fatal"
    /\ Len(evAcks) = 2
    /\ evAcks[1].size = 2
    /\ evAcks[1].ackErrors = 0
    /\ evAcks[2].size = 2
    /\ evAcks[2].ackErrors = 1
    /\ evAcks[1].consumer # evAcks[2].consumer

\* C14: shutdown is two-phase: once the first interrupt is taken no batch
\* is accepted, and the run action returns only when every Consume call has
\* finished, every batch handed out acknowledged; the process exits at
\* once only on a second interrupt taken during that wait, and then the
\* batches in hand stay unacknowledged; before the first interrupt is taken
\* there is no exit.
C14_TwoPhaseShutdown ==
    /\ \A w \in Consumers : ~evWorker[w].afterStop
    /\ evProcess = "returned" =>
          /\ evMainPc = "returned"
          /\ evStopping
          /\ \A w \in Consumers : evWorker[w].pc = "idle"
          /\ \A b \in 1..(evNextBatch - 1) : b \in AckedBatches
    /\ (evHard = "fired") <=> (evProcess = "exit1")
    /\ evProcess = "exit1" =>
          /\ evStopping
          /\ evMainPc = "stop"
          /\ evSent >= 2
          /\ \A w \in Consumers :
                evWorker[w].pc = "payloads" => evWorker[w].batch \notin AckedBatches
    /\ ~evStopping =>
          /\ evProcess \in {"idle", "running", "fatal"}
          /\ evHard = "none"
          /\ evMainPc \in {"idle", "signal"}

\* the second interrupt ended the process during the wait: one batch had
\* been acknowledged, another was in hand with a payload still to process
C14_Witness ==
    /\ evProcess = "exit1"
    /\ evSent = 2
    /\ Len(evAcks) = 1
    /\ \E w \in Consumers :
          /\ evWorker[w].pc = "payloads"
          /\ evWorker[w].processed < evWorker[w].size
          /\ evWorker[w].batch \notin AckedBatches

----------------------------------------------------------------------------
(* Properties of the registry and of the import run *)

\* the position of the prerequisite a dataset names; 0 when it names none
LinkedIndex(d) ==
    IF GetRegisteredDataSets[d].LinkedDataset = "" THEN 0
    ELSE IndexOf(GetRegisteredDataSets[d].LinkedDataset)

\* the datasets reached from d by following LinkedDataset at most n times
RECURSIVE Prerequisites(_, _)
Prerequisites(d, n) ==
    IF n = 0 \/ LinkedIndex(d) = 0 THEN {}
    ELSE {LinkedIndex(d)} \cup Prerequisites(LinkedIndex(d), n - 1)

\* C15: every LinkedDataset names a registered dataset and no dataset is
\* its own prerequisite, directly or through others; gtfs-realtime is
\* listed before the gtfs-schedule it names; and a dataset that names a
\* prerequisite has not begun importing unless that prerequisite has
\* completed.
C15_LinkedDatasetCompletesFirst ==
    /\ \A d \in DataSetIndex :
          /\ GetRegisteredDataSets[d].LinkedDataset # "" => LinkedIndex(d) # 0
          /\ d \notin Prerequisites(d, Len(GetRegisteredDataSets))
          /\ (LinkedIndex(d) # 0 /\ dsState[d] \notin {"pending", "skipped"}) =>
                dsState[LinkedIndex(d)] = "completed"
    /\ IndexOf("gb-dft-bods-gtfs-realtime") # 0
    /\ IndexOf("gb-dft-bods-gtfs-realtime") < IndexOf("gb-dft-bods-gtfs-schedule")
    /\ LinkedIndex(IndexOf("gb-dft-bods-gtfs-realtime"))
          = IndexOf("gb-dft-bods-gtfs-schedule")

\* gtfs-realtime has begun, after gtfs-schedule completed, while a dataset
\* listed after both is still to import
C15_Witness ==
    /\ dsState[IndexOf("gb-dft-bods-gtfs-realtime")] = "hook"
    /\ dsState[IndexOf("gb-dft-bods-gtfs-schedule")] = "completed"
    /\ dsState[IndexOf("gb-nationalrail-timetable")] = "pending"
    /\ dsState[IndexOf("gb-dft-bods-sirivm-all")] \in {"completed", "failed"}

\* C16: when the DownloadHandler of a dataset fails to obtain credentials
\* (a variable unset, the login request failed) that dataset alone is given
\* up: the run goes on, and the datasets that do not depend on it can still
\* be imported.
C16_HandlerFailureSkipsThatDatasetOnly ==
    \A d \in DataSetIndex :
       dsState[d] = "hookfailed" =>
          /\ impProcess = "running"
          /\ \A e \in DataSetIndex :
                (e # d /\ d \notin Prerequisites(e, Len(GetRegisteredDataSets))) =>
                   dsState[e] # "hookfailed"

\* the credential the handler of a dataset is to inject is on the request
CarriesCredential(d, r) ==
    LET handler == GetRegisteredDataSets[d].DownloadHandler
    IN /\ handler = "nationalrail" =>
             (dsLogin[d] = "token" => <<"X-Auth-Token", "nr-token">> \in r.Header)
       /\ handler = "networkrail" =>
             r.BasicAuth = Ptr(<<impEnv["TRAVIGO_NETWORKRAIL_USERNAME"],
                                 impEnv["TRAVIGO_NETWORKRAIL_PASSWORD"]>>)
       /\ handler = "bods" =>
             <<"api_key", impEnv["TRAVIGO_BODS_API_KEY"]>> \in r.RawQuery

\* C17: the request that is sent after the DownloadHandler has run carries
\* the credential: X-Auth-Token for the National Rail datasets, basic auth
\* for Network Rail CORPUS, api_key in the query of the URL for the BODS
\* datasets.
C17_SentRequestCarriesCredential ==
    \A d \in DataSetIndex : dsSent[d] # Nil => CarriesCredential(d, dsSent[d][1])

----------------------------------------------------------------------------
(* Properties of the fingerprint, field by field *)

\* the fingerprinted fields of a journey as a tuple: the head fields, the
\* five fields of each path item in path order and, with the flag set, the
\* three fields of each rule in list order
FieldTuple(j, flag) ==
    << j.ServiceRef, j.DestinationDisplay, j.Direction, j.DepartureTime,
       [p \in 1..Len(j.Path) |->
           << j.Path[p].OriginStopRef, j.Path[p].OriginArrivalTime,
              j.Path[p].OriginDepartureTime, j.Path[p].DestinationStopRef,
              j.Path[p].DestinationArrivalTime >>],
       IF flag /\ j.Availability # Nil
       THEN [r \in 1..Len(AvailabilityRules(j.Availability[1])) |->
               << AvailabilityRules(j.Availability[1])[r].Type,
                  AvailabilityRules(j.Availability[1])[r].Value,
                  AvailabilityRules(j.Availability[1])[r].Description >>]
       ELSE <<>> >>

\* the positions of the journeys FilterIdenticalJourneys has dropped: those
\* whose fingerprint an earlier journey had
Dropped == { i \in 1..Len(hashLog) : \E k \in 1..(i - 1) : hashLog[k] = hashLog[i] }

\* C18: a journey is dropped only when an earlier journey of the input
\* agrees with it on every fingerprinted field, field by field.
C18_DropsOnlyFieldwiseEqual ==
    filterPc = "done" =>
       /\ Len(filtered) = Len(journeys) - Cardinality(Dropped)
       /\ \A i \in Dropped :
             \E k \in 1..(i - 1) :
                FieldTuple(journeys[k], includeAvailabilityCondition)
                   = FieldTuple(journeys[i], includeAvailabilityCondition)

\* s is a subsequence of t
RECURSIVE IsSubsequence(_, _)
IsSubsequence(s, t) ==
    IF s = <<>> THEN TRUE
    ELSE IF t = <<>> THEN FALSE
    ELSE IF Head(s) = Head(t) THEN IsSubsequence(Tail(s), Tail(t))
    ELSE IsSubsequence(s, Tail(t))

\* C19: with the flag set the call returns for every input; journeys that
\* got equal fingerprints with the flag set have equal fingerprints with it
\* unset; and what the call returns with the flag unset is a subsequence of
\* what it returned with the flag set.
C19_FlagSetRefinesFlagUnset ==
    includeAvailabilityCondition =>
       /\ filterPc # "panic"
       /\ \A a, b \in 1..Len(hashLog) :
             hashLog[a] = hashLog[b] =>
                GenerateFunctionalHash(journeys[a], FALSE)
                   = GenerateFunctionalHash(journeys[b], FALSE)
       /\ filterPc = "done" =>
             IsSubsequence(Pick(journeys, FirstOfFingerprint(journeys, FALSE), 1),
                           filtered)

\* the journey with an Availability that holds no rule
WithoutRules(j) ==
    [j EXCEPT !.Availability = Ptr([Match |-> <<>>, MatchSecondary |-> <<>>,
                                    Exclude |-> <<>>, Condition |-> <<>>])]

\* C20: with the flag set the call completes for every input, and a journey
\* that carries no Availability is fingerprinted as one without rules.
C20_AbsentAvailabilityHasNoRules ==
    includeAvailabilityCondition =>
       /\ filterPc # "panic"
       /\ \A i \in 1..Len(hashLog) :
             journeys[i].Availability = Nil =>
                hashLog[i] = GenerateFunctionalHash(WithoutRules(journeys[i]), TRUE)

----------------------------------------------------------------------------
(* The overlay is set, never cleared *)

\* the realtime journeys the lookup of the last call could return: those
\* stored for the journey and modified after the cut-off date of that call
WithinCutoffAtCall ==
    { doc \in StoredForJourney : doc.mod > rtCall.now - RealtimeCutoff }

\* C21: GetRealtimeJourney sets the RealtimeJourney field or leaves it: when
\* the lookup finds no record within the cutoff, or finds an inactive one,
\* the field is as it was before the call, so an overlay attached earlier
\* stays attached; when it finds an active one, that one is attached.
C21_OverlayNeverCleared ==
    rtPc = "done" =>
       /\ (rtCall.found = Nil) <=> (WithinCutoffAtCall = {})
       /\ rtCall.found # Nil => rtCall.found[1] \in WithinCutoffAtCall
       /\ (rtCall.found = Nil \/ ~IsActive(rtCall.found[1])) =>
             rtJourney.RealtimeJourney = rtCall.before
       /\ (rtCall.found # Nil /\ IsActive(rtCall.found[1])) =>
             rtJourney.RealtimeJourney = rtCall.found
       /\ rtCall.before # Nil => rtJourney.RealtimeJourney # Nil

\* an overlay attached by an earlier call is still attached after a call
\* made when it is past the cutoff and the lookup found nothing
C21_Witness ==
    /\ rtPc = "done"
    /\ rtCall.before # Nil
    /\ rtCall.found = Nil
    /\ rtJourney.RealtimeJourney = rtCall.before
    /\ rtCall.now - rtCall.before[1].mod >= RealtimeCutoff
    /\ rtCall.before[1] \in rtCall.docs

----------------------------------------------------------------------------
(* Properties of FlattenStops *)

\* the stops the path calls at, in the order of the calls: the origin of
\* every item, then the destination of the last one
CallsOf(path) ==
    IF path = <<>> THEN <<>>
    ELSE [i \in 1..(Len(path) + 1) |->
            IF i <= Len(path) THEN path[i].OriginStopRef
            ELSE path[Len(path)].DestinationStopRef]

\* the positions of s that hold the first occurrence of their element
FirstVisits(s) == { i \in 1..Len(s) : \A k \in 1..(i - 1) : s[k] # s[i] }

\* C22: FlattenStops returns, also on an empty path; the stops it returns
\* are those the journey calls at, each once and in the order of the first
\* visit, the destination of the last path item included; and the two time
\* maps have an entry for exactly the stops returned.
C22_StopsInFirstVisitOrder ==
    /\ flatPc # "panic"
    /\ flatPc = "returned" =>
          /\ stops = Pick(CallsOf(flatPath), FirstVisits(CallsOf(flatPath)), 1)
          /\ { e[1] : e \in arrivalTimes } = { stops[i] : i \in 1..Len(stops) }
          /\ { e[1] : e \in departureTimes } = { stops[i] : i \in 1..Len(stops) }

====
